---- MODULE Spec2Model ----
(***************************************************************************)
(* The transactional App-entity service of the backend                     *)
(* (backend/src/workspace_service/app/app.rs): create_app, read_app,       *)
(* update_app, delete_app and read_apps_belong_to_workspace over the       *)
(* app_table relation, with the validators, the SQL builder, the error     *)
(* mapper and the storage engine they call.                                *)
(***************************************************************************)
EXTENDS Integers, Sequences, FiniteSets, TLC

\* ------------------------------------------------------------------ bounds
\* number of ids uuid::Uuid::new_v4 can hand out in one run
MaxApps == 2
\* largest value the clock (Utc::now) can reach
MaxTime == 1
\* number of create_app, update_app and delete_app calls started in one run;
\* the reading calls are not counted
MaxWrites == 2

\* ------------------------------------------------------------- value sets
Procs == {1, 2}

Uuids == 1..MaxApps

\* the canonical (hyphenated lower-case) text of a Uuid: Uuid::to_string
UuidNames == <<"u1", "u2", "u3", "u4", "u5">>

UuidToString(u) == UuidNames[u]

\* id strings a client can send: empty, not a uuid, and the canonical spellings
IdStrings == {"", "zz"} \cup {UuidToString(u) : u \in Uuids}

\* what a client can send: the empty string and valid values; an update sends
\* a name and a colour no create sends
NameStrings == {"", "a"}
NewNameStrings == {"", "b"}
WorkspaceStrings == {"", "w1", "w2"}
NewWorkspaceStrings == {"", "w2"}
UserStrings == {"", "usr"}
DescStrings == {"", "d"}
NewDescStrings == {"d"}
ColorStyles == {"blue"}
NewColorStyles == {"red"}

\* Option<T> as a sequence of length at most one
None == <<>>
Some(v) == <<v>>
IsSome(o) == Len(o) > 0
Opt(S) == {None} \cup {Some(v) : v \in S}

\* ------------------------------------------------------------------ errors
Ok(v) == [ok |-> TRUE, val |-> v, kind |-> "Success", field |-> ""]
Err(k, f) == [ok |-> FALSE, val |-> <<>>, kind |-> k, field |-> f]

\* flowy_net::errors::invalid_params: a validator's error as a ServerError
invalid_params(f) == Err("InvalidParameter", f)

\* map_sqlx_error: sqlx::Error::RowNotFound is not-found; the other storage
\* failures are a constraint violation, a transport failure or unclassified
StorageErrorKinds == {"ConstraintViolation", "TransportFailure", "Unclassified"}

map_sqlx_error(e) == IF e = "RowNotFound" THEN Err("NotFound", "") ELSE Err(e, "")

\* ---------------------------------------------------------------- validators
AppName_parse(s) == IF s = "" THEN invalid_params("name") ELSE Ok(s)

WorkspaceId_parse(s) == IF s = "" THEN invalid_params("workspace_id") ELSE Ok(s)

UserId_parse(s) == IF s = "" THEN invalid_params("user_id") ELSE Ok(s)

\* a description may be empty
AppDesc_parse(s) == Ok(s)

AppId_parse(s) == IF s = "" THEN invalid_params("app_id") ELSE Ok(s)

\* uuid::Uuid::parse_str: the Uuid of a canonical spelling
Uuid_parse_str(s) ==
    IF \E u \in Uuids : UuidToString(u) = s
    THEN Ok(CHOOSE u \in Uuids : UuidToString(u) = s)
    ELSE Err("UuidError", "")

\* ServerError::from(uuid::Error), the conversion the ? of line 234 applies
FromUuidError(r) == IF r.ok THEN r ELSE invalid_params("app_id")

check_app_id(id) ==
    LET app_id == AppId_parse(id)
    IN  IF ~app_id.ok THEN app_id ELSE FromUuidError(Uuid_parse_str(app_id.val))

\* ColorStyle::write_to_bytes: the protobuf encoding of a colour style
write_to_bytes(c) == IF c = "blue" THEN <<1>> ELSE <<2>>

\* ------------------------------------------------------------- SQL builder
\* a statement under construction: its kind, its table, the projected columns
\* of a select, the contributed (column, value) pairs and the equality filters
SqlBuilder(k, t) ==
    [kind |-> k, table |-> t, columns |-> <<>>, fields |-> <<>>, filters |-> <<>>]

SqlBuilder_create(t) == SqlBuilder("insert", t)
SqlBuilder_select(t) == SqlBuilder("select", t)
SqlBuilder_update(t) == SqlBuilder("update", t)
SqlBuilder_delete(t) == SqlBuilder("delete", t)

add_field(b, c) == [b EXCEPT !.columns = Append(@, c)]

add_arg(b, c, v) == [b EXCEPT !.fields = Append(@, <<c, v>>)]

add_some_arg(b, c, o) == IF IsSome(o) THEN add_arg(b, c, o[1]) ELSE b

add_arg_if(b, cond, c, v) == IF cond THEN add_arg(b, c, v) ELSE b

and_where_eq(b, c, v) == [b EXCEPT !.filters = Append(@, <<c, v>>)]

\* the statement text names columns and placeholders only; the values travel
\* in args, the contributed fields first and the filters after them
build(b) ==
    IF b.table = "" THEN Err("BuildError", "")
    ELSE IF b.kind \in {"insert", "update"} /\ b.fields = <<>> THEN Err("BuildError", "")
    ELSE Ok([sql |-> [kind |-> b.kind, table |-> b.table, columns |-> b.columns,
                      set |-> [i \in 1..Len(b.fields) |-> b.fields[i][1]],
                      where |-> [i \in 1..Len(b.filters) |-> b.filters[i][1]]],
             args |-> [i \in 1..Len(b.fields) |-> b.fields[i][2]]
                        \o [i \in 1..Len(b.filters) |-> b.filters[i][2]]])

\* ---------------------------------------------------------- storage engine
\* app_table: a function from the ids present (the primary key) to rows
EmptyTable == [i \in {} |-> 0]

Col(row, c) ==
    CASE c = "id" -> row.id
      [] c = "workspace_id" -> row.workspace_id
      [] c = "name" -> row.name
      [] c = "description" -> row.description
      [] c = "color_style" -> row.color_style
      [] c = "modified_time" -> row.modified_time
      [] c = "create_time" -> row.create_time
      [] c = "user_id" -> row.user_id
      [] c = "is_trash" -> row.is_trash

SetCol(row, c, v) ==
    CASE c = "id" -> [row EXCEPT !.id = v]
      [] c = "workspace_id" -> [row EXCEPT !.workspace_id = v]
      [] c = "name" -> [row EXCEPT !.name = v]
      [] c = "description" -> [row EXCEPT !.description = v]
      [] c = "color_style" -> [row EXCEPT !.color_style = v]
      [] c = "modified_time" -> [row EXCEPT !.modified_time = v]
      [] c = "create_time" -> [row EXCEPT !.create_time = v]
      [] c = "user_id" -> [row EXCEPT !.user_id = v]
      [] c = "is_trash" -> [row EXCEPT !.is_trash = v]

\* the columns of app_table that have no default: is_trash defaults to false
RequiredColumns ==
    {"id", "workspace_id", "name", "description", "color_style", "modified_time",
     "create_time", "user_id"}

\* the value bound to column c by an insert, the column's default without one
Bound(sql, args, c, default) ==
    IF \E i \in 1..Len(sql.set) : sql.set[i] = c
    THEN args[CHOOSE i \in 1..Len(sql.set) : sql.set[i] = c]
    ELSE default

InsertedRow(sql, args) ==
    [id |-> Bound(sql, args, "id", 0),
     workspace_id |-> Bound(sql, args, "workspace_id", ""),
     name |-> Bound(sql, args, "name", ""),
     description |-> Bound(sql, args, "description", ""),
     color_style |-> Bound(sql, args, "color_style", <<>>),
     modified_time |-> Bound(sql, args, "modified_time", 0),
     create_time |-> Bound(sql, args, "create_time", 0),
     user_id |-> Bound(sql, args, "user_id", ""),
     is_trash |-> Bound(sql, args, "is_trash", FALSE)]

RECURSIVE UpdatedRow(_, _, _, _)
UpdatedRow(row, sql, args, i) ==
    IF i > Len(sql.set) THEN row
    ELSE UpdatedRow(SetCol(row, sql.set[i], args[i]), sql, args, i + 1)

\* the where arguments follow the set arguments in args
Matches(row, sql, args) ==
    \A i \in 1..Len(sql.where) : Col(row, sql.where[i]) = args[Len(sql.set) + i]

Matching(t, sql, args) == {i \in DOMAIN t : Matches(t[i], sql, args)}

\* one statement on the table t a transaction sees: the table after it, the
\* ids it matched, or the storage error
Execute(t, sql, args) ==
    CASE sql.kind = "insert" ->
           LET row == InsertedRow(sql, args)
           IN  IF \E c \in RequiredColumns : \A i \in 1..Len(sql.set) : sql.set[i] # c
               THEN [ok |-> FALSE, err |-> "ConstraintViolation", table |-> t, ids |-> {}]
               ELSE IF row.id \in DOMAIN t
               THEN [ok |-> FALSE, err |-> "ConstraintViolation", table |-> t, ids |-> {}]
               ELSE [ok |-> TRUE, err |-> "",
                     table |-> [i \in DOMAIN t \cup {row.id} |->
                                   IF i = row.id THEN row ELSE t[i]],
                     ids |-> {row.id}]
      [] sql.kind = "update" ->
           LET m == Matching(t, sql, args)
           IN  [ok |-> TRUE, err |-> "",
                table |-> [i \in DOMAIN t |->
                              IF i \in m THEN UpdatedRow(t[i], sql, args, 1) ELSE t[i]],
                ids |-> m]
      [] sql.kind = "delete" ->
           LET m == Matching(t, sql, args)
           IN  [ok |-> TRUE, err |-> "", table |-> [i \in DOMAIN t \ m |-> t[i]], ids |-> m]
      [] sql.kind = "select" ->
           [ok |-> TRUE, err |-> "", table |-> t, ids |-> Matching(t, sql, args)]

\* ------------------------------------------------------------------- state
VARIABLES
    store,      \* the committed app_table
    now,        \* the last value Utc::now returned
    writes,     \* the number of create, update and delete calls started so far
    pc,         \* pc[p]: where client p's call stands
    op,         \* op[p]: the operation client p called
    params,     \* params[p]: the parameters of the call
    tx,         \* tx[p]: the transaction of the call
    loc,        \* loc[p]: the locals of the call (uuid, time, table, views)
    result,     \* result[p]: the response of the call
    acq,        \* acq[p]: transactions the call acquired from the pool
    sent,       \* sent[p]: statements the call sent to storage
    lastCreate, \* the inputs and id of a create_app no write has followed
    before,     \* before[p]: the committed app_table when the call of p started
    deleted     \* the ids whose rows a committed delete_app removed

vars ==
    <<store, now, writes, pc, op, params, tx, loc, result, acq, sent, lastCreate,
      before, deleted>>

Ops == {"create_app", "read_app", "update_app", "delete_app", "read_apps_belong_to_workspace"}

\* the operations that send an INSERT, UPDATE or DELETE
WriteOps == {"create_app", "update_app", "delete_app"}

\* the four operations that take their transaction from the pool
PoolOps == {"create_app", "read_app", "update_app", "delete_app"}

CreateAppParams ==
    [workspace_id : WorkspaceStrings, user_id : UserStrings, name : NameStrings,
     desc : DescStrings, color_style : ColorStyles]

QueryAppParams == [app_id : IdStrings, read_belongings : BOOLEAN]

UpdateAppParams ==
    [app_id : IdStrings, name : Opt(NewNameStrings),
     workspace_id : Opt(NewWorkspaceStrings),
     color_style : Opt(NewColorStyles), desc : Opt(NewDescStrings), is_trash : Opt(BOOLEAN)]

DeleteAppParams == [app_id : IdStrings]

WorkspaceParams == [workspace_id : WorkspaceStrings]

\* protobuf accessors of an optional field: has_x and get_x (the default when unset)
has(o) == IsSome(o)
get(o, default) == IF IsSome(o) THEN o[1] ELSE default

NoParams == [app_id |-> ""]
NoTx == [state |-> "none", puts |-> EmptyTable, dels |-> {}]
NoLocals == [uuid |-> 0, time |-> 0, table |-> <<>>, views |-> <<>>]
Pending == Err("Pending", "")
Cancelled == Err("Cancelled", "")

\* the views of the view service, by parent app id, in the order it returns them
ViewsOf(id) == IF id = 1 THEN <<"v2", "v1">> ELSE <<>>

\* read_views_belong_to_id on the text of the app id
read_views_belong_to_id(idText) ==
    IF Uuid_parse_str(idText).ok THEN ViewsOf(Uuid_parse_str(idText).val) ELSE <<>>

\* impl From<AppTable> for App
ToApp(row) ==
    [id |-> UuidToString(row.id), workspace_id |-> row.workspace_id, name |-> row.name,
     desc |-> row.description, belongings |-> <<>>, version |-> 0]

\* pool.begin().context(..)? and commit().context(..)?: the anyhow error as a ServerError
context_error == Err("TransportFailure", "")

\* what the transaction of client p sees: the committed table and its own writes
TxTable(p) ==
    [i \in (DOMAIN store \ tx[p].dels) \cup DOMAIN tx[p].puts |->
        IF i \in DOMAIN tx[p].puts THEN tx[p].puts[i] ELSE store[i]]

\* rows another open transaction has written and not yet committed (row locks)
LockedByOthers(p) ==
    UNION {DOMAIN tx[q].puts \cup tx[q].dels : q \in {r \in Procs \ {p} : tx[r].state = "open"}}

\* the transaction of p after a write statement turned the table it sees into
\* t2, touching ids
Written(p, t2, ids) ==
    [state |-> "open",
     puts |-> [i \in (DOMAIN tx[p].puts \cup ids) \cap DOMAIN t2 |-> t2[i]],
     dels |-> ((tx[p].dels \cup ids) \ DOMAIN t2) \cap DOMAIN store]

\* dropping a transaction that was not committed rolls it back
Dropped(t) == IF t.state = "open" THEN [NoTx EXCEPT !.state = "rolledback"] ELSE t

\* ------------------------------------------------- validation, per operation
\* create_app taking the name as it comes
create_app_validate_NameUnchecked(prm) ==
    LET color_bytes == write_to_bytes(prm.color_style)
        workspace_id == WorkspaceId_parse(prm.workspace_id)
        user_id == UserId_parse(prm.user_id)
        desc == AppDesc_parse(prm.desc)
    IN  IF ~workspace_id.ok THEN workspace_id
        ELSE IF ~user_id.ok THEN user_id
        ELSE IF ~desc.ok THEN desc
        ELSE Ok([color_bytes |-> color_bytes, name |-> prm.name,
                 workspace_id |-> workspace_id.val, user_id |-> user_id.val,
                 desc |-> desc.val])

\* create_app, lines 32-36: the first validator that fails decides the error
create_app_validate(prm) ==
    LET color_bytes == write_to_bytes(prm.color_style)
        name == AppName_parse(prm.name)
        workspace_id == WorkspaceId_parse(prm.workspace_id)
        user_id == UserId_parse(prm.user_id)
        desc == AppDesc_parse(prm.desc)
    IN  IF ~name.ok THEN name
        ELSE IF ~workspace_id.ok THEN workspace_id
        ELSE IF ~user_id.ok THEN user_id
        ELSE IF ~desc.ok THEN desc
        ELSE Ok([color_bytes |-> color_bytes, name |-> name.val,
                 workspace_id |-> workspace_id.val, user_id |-> user_id.val,
                 desc |-> desc.val])

\* read_app falling back to the first uuid when the id does not parse
read_app_validate_Fallback(prm) ==
    IF check_app_id(prm.app_id).ok THEN check_app_id(prm.app_id) ELSE Ok(1)

\* read_app, line 83
read_app_validate(prm) == check_app_id(prm.app_id)

\* update_app taking a supplied name as it comes
update_app_validate_NameUnchecked(prm) ==
    LET app_id == check_app_id(prm.app_id)
        workspace_id == WorkspaceId_parse(get(prm.workspace_id, ""))
        desc == AppDesc_parse(get(prm.desc, ""))
    IN  IF ~app_id.ok THEN app_id
        ELSE IF has(prm.workspace_id) /\ ~workspace_id.ok THEN workspace_id
        ELSE IF has(prm.desc) /\ ~desc.ok THEN desc
        ELSE Ok([app_id |-> app_id.val,
                 name |-> prm.name,
                 workspace_id |->
                     IF has(prm.workspace_id) THEN Some(workspace_id.val) ELSE None,
                 color_style |->
                     IF has(prm.color_style)
                     THEN Some(write_to_bytes(get(prm.color_style, "blue")))
                     ELSE None,
                 desc |-> IF has(prm.desc) THEN Some(desc.val) ELSE None])

\* update_app, lines 120-154: app_id always, an optional field only when supplied
update_app_validate(prm) ==
    LET app_id == check_app_id(prm.app_id)
        name == AppName_parse(get(prm.name, ""))
        workspace_id == WorkspaceId_parse(get(prm.workspace_id, ""))
        desc == AppDesc_parse(get(prm.desc, ""))
    IN  IF ~app_id.ok THEN app_id
        ELSE IF has(prm.name) /\ ~name.ok THEN name
        ELSE IF has(prm.workspace_id) /\ ~workspace_id.ok THEN workspace_id
        ELSE IF has(prm.desc) /\ ~desc.ok THEN desc
        ELSE Ok([app_id |-> app_id.val,
                 name |-> IF has(prm.name) THEN Some(name.val) ELSE None,
                 workspace_id |->
                     IF has(prm.workspace_id) THEN Some(workspace_id.val) ELSE None,
                 color_style |->
                     IF has(prm.color_style)
                     THEN Some(write_to_bytes(get(prm.color_style, "blue")))
                     ELSE None,
                 desc |-> IF has(prm.desc) THEN Some(desc.val) ELSE None])

\* delete_app, line 185
delete_app_validate(prm) == check_app_id(prm.app_id)

\* what runs before pool.begin() in each operation
Validate(o, prm) ==
    CASE o = "create_app" -> create_app_validate(prm)
      [] o = "read_app" -> read_app_validate(prm)
      [] o = "update_app" -> update_app_validate(prm)
      [] o = "delete_app" -> delete_app_validate(prm)
      [] OTHER -> Ok(<<>>)

\* ------------------------------------------------- statements, per operation
\* create_app with the name and the description bound to each other's column
create_app_sql_SwapNameDesc(uuid, v, time) ==
    build(add_arg(add_arg(add_arg(add_arg(add_arg(add_arg(add_arg(add_arg(
        SqlBuilder_create("app_table"),
        "id", uuid),
        "workspace_id", v.workspace_id),
        "name", v.desc),
        "description", v.name),
        "color_style", v.color_bytes),
        "modified_time", time),
        "create_time", time),
        "user_id", v.user_id))

\* create_app leaving modified_time at the epoch
create_app_sql_EpochModified(uuid, v, time) ==
    build(add_arg(add_arg(add_arg(add_arg(add_arg(add_arg(add_arg(add_arg(
        SqlBuilder_create("app_table"),
        "id", uuid),
        "workspace_id", v.workspace_id),
        "name", v.name),
        "description", v.desc),
        "color_style", v.color_bytes),
        "modified_time", 0),
        "create_time", time),
        "user_id", v.user_id))

\* create_app, lines 46-55
create_app_sql(uuid, v, time) ==
    build(add_arg(add_arg(add_arg(add_arg(add_arg(add_arg(add_arg(add_arg(
        SqlBuilder_create("app_table"),
        "id", uuid),
        "workspace_id", v.workspace_id),
        "name", v.name),
        "description", v.desc),
        "color_style", v.color_bytes),
        "modified_time", time),
        "create_time", time),
        "user_id", v.user_id))

\* read_app selecting the app only while it is out of the trash
read_app_sql_NotTrashed(app_id) ==
    build(and_where_eq(and_where_eq(add_field(SqlBuilder_select("app_table"), "*"),
        "id", app_id), "is_trash", FALSE))

\* read_app, lines 90-93
read_app_sql(app_id) ==
    build(and_where_eq(add_field(SqlBuilder_select("app_table"), "*"), "id", app_id))

\* update_app binding the description whether or not it was supplied
update_app_sql_AlwaysDesc(v, prm, time) ==
    build(and_where_eq(add_arg_if(add_some_arg(add_arg(add_some_arg(add_some_arg(
        add_some_arg(SqlBuilder_update("app_table"),
        "name", v.name),
        "workspace_id", v.workspace_id),
        "color_style", v.color_style),
        "description", get(v.desc, "")),
        "modified_time", Some(time)),
        has(prm.is_trash), "is_trash", get(prm.is_trash, FALSE)),
        "id", v.app_id))

\* update_app without the modified_time contribution
update_app_sql_NoTimestamp(v, prm, time) ==
    build(and_where_eq(add_arg_if(add_some_arg(add_some_arg(add_some_arg(
        add_some_arg(SqlBuilder_update("app_table"),
        "name", v.name),
        "workspace_id", v.workspace_id),
        "color_style", v.color_style),
        "description", v.desc),
        has(prm.is_trash), "is_trash", get(prm.is_trash, FALSE)),
        "id", v.app_id))

\* update_app binding is_trash only when the flag it carries is true
update_app_sql_TrashWhenTrue(v, prm, time) ==
    build(and_where_eq(add_arg_if(add_some_arg(add_some_arg(add_some_arg(add_some_arg(
        add_some_arg(SqlBuilder_update("app_table"),
        "name", v.name),
        "workspace_id", v.workspace_id),
        "color_style", v.color_style),
        "description", v.desc),
        "modified_time", Some(time)),
        get(prm.is_trash, FALSE), "is_trash", get(prm.is_trash, FALSE)),
        "id", v.app_id))

\* update_app, lines 161-169
update_app_sql(v, prm, time) ==
    build(and_where_eq(add_arg_if(add_some_arg(add_some_arg(add_some_arg(add_some_arg(
        add_some_arg(SqlBuilder_update("app_table"),
        "name", v.name),
        "workspace_id", v.workspace_id),
        "color_style", v.color_style),
        "description", v.desc),
        "modified_time", Some(time)),
        has(prm.is_trash), "is_trash", get(prm.is_trash, FALSE)),
        "id", v.app_id))

\* delete_app without the filter on the id
delete_app_sql_EveryRow(app_id) == build(SqlBuilder_delete("app_table"))

\* delete_app, lines 191-193
delete_app_sql(app_id) ==
    build(and_where_eq(SqlBuilder_delete("app_table"), "id", app_id))

\* the SELECT of read_apps_belong_to_workspace without its filter
read_apps_sql_NoFilter(workspace_id) ==
    build(add_field(SqlBuilder_select("app_table"), "*"))

\* read_apps_belong_to_workspace, lines 214-217
read_apps_sql(workspace_id) ==
    build(and_where_eq(add_field(SqlBuilder_select("app_table"), "*"),
                       "workspace_id", workspace_id))

\* create_app, lines 67-74: the App of the response, from the validated inputs
create_app_response(uuid, v) ==
    [id |-> UuidToString(uuid), workspace_id |-> v.workspace_id, name |-> v.name,
     desc |-> v.desc, belongings |-> <<>>, version |-> 0]

\* read_app answering the App as converted from the row, the views left out
read_app_response_NoViews(table, views) == ToApp(table)

\* read_app, lines 110-111
read_app_response(table, views) == [ToApp(table) EXCEPT !.belongings = views]

\* ------------------------------------------------------------------ actions
\* the service starts on an empty app_table
Init ==
    /\ store = EmptyTable
    /\ now = 0
    /\ writes = 0
    /\ pc = [p \in Procs |-> "idle"]
    /\ op = [p \in Procs |-> "none"]
    /\ params = [p \in Procs |-> NoParams]
    /\ tx = [p \in Procs |-> NoTx]
    /\ loc = [p \in Procs |-> NoLocals]
    /\ result = [p \in Procs |-> Pending]
    /\ acq = [p \in Procs |-> 0]
    /\ sent = [p \in Procs |-> 0]
    /\ lastCreate = <<>>
    /\ before = [p \in Procs |-> EmptyTable]
    /\ deleted = {}

\* the ids uuid::Uuid::new_v4 can still return: those no row has or had, and no
\* open transaction has inserted
FreshUuids ==
    Uuids \ (DOMAIN store \cup deleted \cup UNION {DOMAIN tx[q].puts : q \in Procs})

\* uuid::Uuid::new_v4, line 43
new_v4 == CHOOSE u \in FreshUuids : \A w \in FreshUuids : u <= w

\* creates that have not yet drawn their id
CreatesWaiting(p) ==
    {q \in Procs \ {p} : op[q] = "create_app" /\ pc[q] \in {"begin", "exec"}}

\* the call ends with an error and its transaction stays as it is
Fail_KeepsTransaction(p, e) ==
    /\ pc' = [pc EXCEPT ![p] = "done"]
    /\ result' = [result EXCEPT ![p] = e]
    /\ UNCHANGED tx

\* the call ends with an error: the ? operator returns, dropping the transaction
Fail(p, e) ==
    /\ pc' = [pc EXCEPT ![p] = "done"]
    /\ result' = [result EXCEPT ![p] = e]
    /\ tx' = [tx EXCEPT ![p] = Dropped(@)]

\* the write executed on the pool: it is committed as it runs
WriteEffect_OnPool(p, r) ==
    /\ store' = r.table
    /\ UNCHANGED tx

\* .execute(&mut transaction), lines 57-60, 171-174, 195-198: the write goes to
\* the transaction and stays out of the committed table
WriteEffect(p, r) ==
    /\ tx' = [tx EXCEPT ![p] = Written(p, r.table, r.ids)]
    /\ UNCHANGED store

\* a client calls operation o with parameters prm; what precedes the first
\* await of the operation (its validation) runs at once
Call(p, o, prm) ==
    /\ pc[p] = "idle"
    /\ o \in WriteOps => writes < MaxWrites
    /\ o = "create_app" => Cardinality(FreshUuids) > Cardinality(CreatesWaiting(p))
    /\ writes' = IF o \in WriteOps THEN writes + 1 ELSE writes
    /\ op' = [op EXCEPT ![p] = o]
    /\ params' = [params EXCEPT ![p] = prm]
    /\ LET v == Validate(o, prm)
       IN  /\ pc' = [pc EXCEPT ![p] = IF v.ok THEN "begin" ELSE "done"]
           /\ result' = [result EXCEPT ![p] = IF v.ok THEN Pending ELSE v]
    /\ before' = [before EXCEPT ![p] = store]
    /\ UNCHANGED <<store, now, tx, loc, acq, sent, lastCreate, deleted>>

create_app_call(p) == \E prm \in CreateAppParams : Call(p, "create_app", prm)
read_app_call(p) == \E prm \in QueryAppParams : Call(p, "read_app", prm)
update_app_call(p) == \E prm \in UpdateAppParams : Call(p, "update_app", prm)
delete_app_call(p) == \E prm \in DeleteAppParams : Call(p, "delete_app", prm)
read_apps_call(p) ==
    \E prm \in WorkspaceParams : Call(p, "read_apps_belong_to_workspace", prm)

\* Utc::now(), lines 44 and 166: the clock does not go back; between two
\* readings it stays or moves to the next value
Utc_now == {t \in now..MaxTime : t <= now + 1}

\* the readings of the clock a call makes once it has its transaction:
\* create_app and update_app read it before their statement goes out
ClockRead(p) == IF op[p] \in {"create_app", "update_app"} THEN Utc_now ELSE {now}

\* pool.begin().await, lines 38-41, 85-88, 156-159, 186-189, and what the call
\* runs before its next await: the reading of the clock, lines 44 and 166
Begin(p) ==
    /\ pc[p] = "begin"
    /\ op[p] \in PoolOps
    /\ \E ok \in BOOLEAN :
          IF ok
          THEN /\ tx' = [tx EXCEPT ![p] = [NoTx EXCEPT !.state = "open"]]
               /\ acq' = [acq EXCEPT ![p] = @ + 1]
               /\ pc' = [pc EXCEPT ![p] = "exec"]
               /\ \E time \in ClockRead(p) :
                     /\ now' = time
                     /\ loc' = IF op[p] \in {"create_app", "update_app"}
                               THEN [loc EXCEPT ![p].time = time] ELSE loc
               /\ UNCHANGED result
          ELSE /\ Fail(p, context_error)
               /\ UNCHANGED <<acq, now, loc>>
    /\ UNCHANGED <<store, writes, op, params, sent, lastCreate, before, deleted>>

\* the caller of read_apps_belong_to_workspace opens the transaction it passes in
CallerBegin(p) ==
    /\ pc[p] = "begin"
    /\ op[p] = "read_apps_belong_to_workspace"
    /\ \E ok \in BOOLEAN :
          IF ok
          THEN /\ tx' = [tx EXCEPT ![p] = [NoTx EXCEPT !.state = "open"]]
               /\ pc' = [pc EXCEPT ![p] = "exec"]
               /\ UNCHANGED result
          ELSE Fail(p, context_error)
    /\ UNCHANGED <<store, now, writes, op, params, loc, acq, sent, lastCreate,
                   before, deleted>>

\* an UPDATE or DELETE that matched no row reported as RowNotFound
Storage_RowRequired(p, fault, built) ==
    IF fault # "none"
    THEN [ok |-> FALSE, err |-> fault, table |-> TxTable(p), ids |-> {}]
    ELSE IF /\ built.val.sql.kind \in {"update", "delete"}
            /\ Execute(TxTable(p), built.val.sql, built.val.args).ids = {}
    THEN [ok |-> FALSE, err |-> "RowNotFound", table |-> TxTable(p), ids |-> {}]
    ELSE Execute(TxTable(p), built.val.sql, built.val.args)

\* a statement reaches storage: storage runs it, or fails for a reason of its own
Storage(p, fault, built) ==
    IF fault # "none"
    THEN [ok |-> FALSE, err |-> fault, table |-> TxTable(p), ids |-> {}]
    ELSE Execute(TxTable(p), built.val.sql, built.val.args)

Faults == {"none"} \cup StorageErrorKinds

\* create_app, lines 43-60: the id and the INSERT, with the time the call read
create_app_exec(p) ==
    /\ pc[p] = "exec"
    /\ op[p] = "create_app"
    /\ \E fault \in Faults :
          LET v == create_app_validate(params[p]).val
              uuid == new_v4
              built == create_app_sql(uuid, v, loc[p].time)
              r == Storage(p, fault, built)
          IN  /\ loc' = [loc EXCEPT ![p].uuid = uuid]
              /\ IF ~built.ok
                 THEN Fail(p, built) /\ UNCHANGED <<sent, store>>
                 ELSE /\ sent' = [sent EXCEPT ![p] = @ + 1]
                      /\ IF ~r.ok
                         THEN Fail(p, map_sqlx_error(r.err)) /\ UNCHANGED store
                         ELSE /\ WriteEffect(p, r)
                              /\ pc' = [pc EXCEPT ![p] = "commit"]
                              /\ UNCHANGED result
    /\ UNCHANGED <<now, writes, op, params, acq, lastCreate, before, deleted>>

\* a fetch that answers a default row when the SELECT matched none
read_app_fetch_Default(r) ==
    IF ~r.ok THEN map_sqlx_error(r.err)
    ELSE IF r.ids = {}
    THEN Ok([id |-> 1, workspace_id |-> "", name |-> "", description |-> "",
             color_style |-> <<>>, modified_time |-> 0, create_time |-> 0,
             user_id |-> "", is_trash |-> FALSE])
    ELSE Ok(r.table[CHOOSE i \in r.ids : TRUE])

\* sqlx fetch_one and map_err(map_sqlx_error), lines 95-98: the one row the
\* SELECT matched, RowNotFound when it matched none
read_app_fetch(r) ==
    IF ~r.ok THEN map_sqlx_error(r.err)
    ELSE IF r.ids = {} THEN map_sqlx_error("RowNotFound")
    ELSE Ok(r.table[CHOOSE i \in r.ids : TRUE])

\* read_app, lines 90-98: the SELECT by id
read_app_exec(p) ==
    /\ pc[p] = "exec"
    /\ op[p] = "read_app"
    /\ \E fault \in Faults :
          LET app_id == read_app_validate(params[p]).val
              built == read_app_sql(app_id)
              table == read_app_fetch(Storage(p, fault, built))
          IN  IF ~built.ok
              THEN Fail(p, built) /\ UNCHANGED <<sent, loc>>
              ELSE /\ sent' = [sent EXCEPT ![p] = @ + 1]
                   /\ IF ~table.ok
                      THEN Fail(p, table) /\ UNCHANGED loc
                      ELSE /\ loc' = [loc EXCEPT ![p].table = <<table.val>>]
                           /\ pc' = [pc EXCEPT ![p] =
                                        IF params[p].read_belongings THEN "views"
                                        ELSE "commit"]
                           /\ UNCHANGED <<result, tx>>
    /\ UNCHANGED <<store, now, writes, op, params, acq, lastCreate, before, deleted>>

\* read_app, lines 100-103: the views of the app, in the same transaction
read_app_views(p) ==
    /\ pc[p] = "views"
    /\ \E fault \in Faults :
          IF fault # "none"
          THEN Fail(p, map_sqlx_error(fault)) /\ UNCHANGED loc
          ELSE /\ loc' = [loc EXCEPT ![p].views =
                            read_views_belong_to_id(UuidToString(loc[p].table[1].id))]
               /\ pc' = [pc EXCEPT ![p] = "commit"]
               /\ UNCHANGED <<result, tx>>
    /\ sent' = [sent EXCEPT ![p] = @ + 1]
    /\ UNCHANGED <<store, now, writes, op, params, acq, lastCreate, before, deleted>>

\* update_app, lines 161-174: the UPDATE by id, with the time the call read; the
\* statement waits while another transaction holds the row
update_app_exec(p) ==
    /\ pc[p] = "exec"
    /\ op[p] = "update_app"
    /\ \E fault \in Faults :
          LET v == update_app_validate(params[p]).val
              built == update_app_sql(v, params[p], loc[p].time)
              r == Storage(p, fault, built)
          IN  IF ~built.ok
              THEN Fail(p, built) /\ UNCHANGED <<sent, store>>
              ELSE /\ r.ids \cap LockedByOthers(p) = {}
                   /\ sent' = [sent EXCEPT ![p] = @ + 1]
                   /\ IF ~r.ok
                      THEN Fail(p, map_sqlx_error(r.err)) /\ UNCHANGED store
                      ELSE /\ WriteEffect(p, r)
                           /\ pc' = [pc EXCEPT ![p] = "commit"]
                           /\ UNCHANGED result
    /\ UNCHANGED <<now, writes, op, params, loc, acq, lastCreate, before, deleted>>

\* delete_app, lines 191-198: the DELETE by id
delete_app_exec(p) ==
    /\ pc[p] = "exec"
    /\ op[p] = "delete_app"
    /\ \E fault \in Faults :
          LET app_id == delete_app_validate(params[p]).val
              built == delete_app_sql(app_id)
              r == Storage(p, fault, built)
          IN  IF ~built.ok
              THEN Fail(p, built) /\ UNCHANGED <<sent, store>>
              ELSE /\ r.ids \cap LockedByOthers(p) = {}
                   /\ sent' = [sent EXCEPT ![p] = @ + 1]
                   /\ IF ~r.ok
                      THEN Fail(p, map_sqlx_error(r.err)) /\ UNCHANGED store
                      ELSE /\ WriteEffect(p, r)
                           /\ pc' = [pc EXCEPT ![p] = "commit"]
                           /\ UNCHANGED result
    /\ UNCHANGED <<now, writes, op, params, loc, acq, lastCreate, before, deleted>>

\* the orders in which storage can return the rows of ids
Orders(ids) ==
    {f \in [1..Cardinality(ids) -> ids] : \A i, j \in 1..Cardinality(ids) : f[i] = f[j] => i = j}

\* read_apps_belong_to_workspace committing the transaction it was given once
\* its SELECT has run
read_apps_belong_to_workspace_Commits(p) ==
    /\ pc[p] = "exec"
    /\ op[p] = "read_apps_belong_to_workspace"
    /\ pc' = [pc EXCEPT ![p] = "ret"]
    /\ \E fault \in Faults :
          LET workspace_id == WorkspaceId_parse(params[p].workspace_id)
              built == read_apps_sql(workspace_id.val)
              r == Storage(p, fault, built)
          IN  IF ~workspace_id.ok
              THEN result' = [result EXCEPT ![p] = workspace_id] /\ UNCHANGED <<sent, tx>>
              ELSE IF ~built.ok
              THEN result' = [result EXCEPT ![p] = built] /\ UNCHANGED <<sent, tx>>
              ELSE /\ sent' = [sent EXCEPT ![p] = @ + 1]
                   /\ tx' = [tx EXCEPT ![p] = [NoTx EXCEPT !.state = "committed"]]
                   /\ IF ~r.ok
                      THEN result' = [result EXCEPT ![p] = map_sqlx_error(r.err)]
                      ELSE \E tables \in Orders(r.ids) :
                             result' = [result EXCEPT ![p] =
                                Ok([i \in 1..Len(tables) |-> ToApp(r.table[tables[i]])])]
    /\ UNCHANGED <<store, now, writes, op, params, loc, acq, lastCreate, before, deleted>>

\* read_apps_belong_to_workspace, lines 213-229, inside the caller's transaction:
\* it returns to the caller, which still holds the transaction
read_apps_belong_to_workspace(p) ==
    /\ pc[p] = "exec"
    /\ op[p] = "read_apps_belong_to_workspace"
    /\ pc' = [pc EXCEPT ![p] = "ret"]
    /\ \E fault \in Faults :
          LET workspace_id == WorkspaceId_parse(params[p].workspace_id)
              built == read_apps_sql(workspace_id.val)
              r == Storage(p, fault, built)
          IN  IF ~workspace_id.ok
              THEN result' = [result EXCEPT ![p] = workspace_id] /\ UNCHANGED sent
              ELSE IF ~built.ok
              THEN result' = [result EXCEPT ![p] = built] /\ UNCHANGED sent
              ELSE /\ sent' = [sent EXCEPT ![p] = @ + 1]
                   /\ IF ~r.ok
                      THEN result' = [result EXCEPT ![p] = map_sqlx_error(r.err)]
                      ELSE \E tables \in Orders(r.ids) :
                             result' = [result EXCEPT ![p] =
                                Ok([i \in 1..Len(tables) |-> ToApp(r.table[tables[i]])])]
    /\ UNCHANGED <<store, now, writes, op, params, tx, loc, acq, lastCreate,
                   before, deleted>>

\* the caller of read_apps_belong_to_workspace commits or drops its transaction
CallerEnd(p) ==
    /\ pc[p] = "ret"
    /\ pc' = [pc EXCEPT ![p] = "done"]
    /\ \E ok \in BOOLEAN :
          tx' = [tx EXCEPT ![p] = IF ok THEN [NoTx EXCEPT !.state = "committed"]
                                  ELSE Dropped(@)]
    /\ UNCHANGED <<store, now, writes, op, params, loc, result, acq, sent,
                   lastCreate, before, deleted>>

\* the body of the success response, lines 67-76, 110-113, 181, 205
Response(p) ==
    CASE op[p] = "create_app" ->
           Ok(<<create_app_response(loc[p].uuid, create_app_validate(params[p]).val)>>)
      [] op[p] = "read_app" -> Ok(<<read_app_response(loc[p].table[1], loc[p].views)>>)
      [] OTHER -> Ok(<<>>)

\* a failed commit that is not looked at: the call answers as if it had committed
CommitFailure_Swallowed(p) == Response(p)

\* commit().await.context(..)?, lines 62-65, 105-108, 176-179, 200-203: a failed
\* commit is the error of the call
CommitFailure(p) == context_error

\* transaction.commit().await and the success return: lines 62-76, 105-113,
\* 176-181, 200-205
Commit(p) ==
    /\ pc[p] = "commit"
    /\ pc' = [pc EXCEPT ![p] = "done"]
    /\ \E ok \in BOOLEAN :
          IF ok
          THEN /\ store' = TxTable(p)
               /\ tx' = [tx EXCEPT ![p] = [NoTx EXCEPT !.state = "committed"]]
               /\ result' = [result EXCEPT ![p] = Response(p)]
               /\ lastCreate' =
                    CASE op[p] = "create_app" ->
                           <<[id |-> UuidToString(loc[p].uuid),
                              workspace_id |-> params[p].workspace_id,
                              name |-> params[p].name, desc |-> params[p].desc]>>
                      [] op[p] = "read_app" -> lastCreate
                      [] OTHER -> <<>>
               /\ deleted' = IF op[p] = "delete_app" THEN deleted \cup tx[p].dels
                             ELSE deleted
          ELSE /\ tx' = [tx EXCEPT ![p] = Dropped(@)]
               /\ result' = [result EXCEPT ![p] = CommitFailure(p)]
               /\ UNCHANGED <<store, lastCreate, deleted>>
    /\ UNCHANGED <<now, writes, op, params, loc, acq, sent, before>>

\* the caller drops the future at one of its awaits: the transaction, if one is
\* open, is dropped with it
Cancel(p) ==
    /\ pc[p] \in {"begin", "exec", "views", "commit"}
    /\ Fail(p, Cancelled)
    /\ UNCHANGED <<store, now, writes, op, params, loc, acq, sent, lastCreate,
                   before, deleted>>

\* the client takes the response; nothing of the call outlives it
Return(p) ==
    /\ pc[p] = "done"
    /\ pc' = [pc EXCEPT ![p] = "idle"]
    /\ op' = [op EXCEPT ![p] = "none"]
    /\ params' = [params EXCEPT ![p] = NoParams]
    /\ tx' = [tx EXCEPT ![p] = NoTx]
    /\ loc' = [loc EXCEPT ![p] = NoLocals]
    /\ result' = [result EXCEPT ![p] = Pending]
    /\ acq' = [acq EXCEPT ![p] = 0]
    /\ sent' = [sent EXCEPT ![p] = 0]
    /\ before' = [before EXCEPT ![p] = EmptyTable]
    /\ UNCHANGED <<store, now, writes, lastCreate, deleted>>

Step(p) ==
    \/ create_app_call(p)
    \/ read_app_call(p)
    \/ update_app_call(p)
    \/ delete_app_call(p)
    \/ read_apps_call(p)
    \/ Begin(p)
    \/ CallerBegin(p)
    \/ create_app_exec(p)
    \/ read_app_exec(p)
    \/ read_app_views(p)
    \/ update_app_exec(p)
    \/ delete_app_exec(p)
    \/ read_apps_belong_to_workspace(p)
    \/ CallerEnd(p)
    \/ Commit(p)
    \/ Cancel(p)
    \/ Return(p)

\* one client: its calls follow one another
Clients == {1}

Next == \E p \in Clients : Step(p)

Spec == Init /\ [][Next]_vars

\* ------------------------------------------- a run on a table left by earlier calls
\* the create_app and the soft delete that left the stored row
StoredCreate ==
    [workspace_id |-> "w1", user_id |-> "usr", name |-> "a", desc |-> "",
     color_style |-> "blue"]

StoredTrash ==
    [app_id |-> UuidToString(1), name |-> None, workspace_id |-> None,
     color_style |-> None, desc |-> None, is_trash |-> Some(TRUE)]

\* statement built on table t, where the builder accepted it
Run(t, built) == Execute(t, built.val.sql, built.val.args).table

\* app 1 created at time 0 and then moved to the trash
StoredTable ==
    Run(Run(EmptyTable, create_app_sql(1, create_app_validate(StoredCreate).val, 0)),
        update_app_sql(update_app_validate(StoredTrash).val, StoredTrash, 0))

\* the table holds app 1 in the trash, app 2 was created and removed by a
\* delete_app, and the run has one writing call left
InitStored ==
    /\ store = StoredTable
    /\ now = 0
    /\ writes = MaxWrites - 1
    /\ pc = [p \in Procs |-> "idle"]
    /\ op = [p \in Procs |-> "none"]
    /\ params = [p \in Procs |-> NoParams]
    /\ tx = [p \in Procs |-> NoTx]
    /\ loc = [p \in Procs |-> NoLocals]
    /\ result = [p \in Procs |-> Pending]
    /\ acq = [p \in Procs |-> 0]
    /\ sent = [p \in Procs |-> 0]
    /\ lastCreate = <<>>
    /\ before = [p \in Procs |-> EmptyTable]
    /\ deleted = {2}

\* the calls on the stored table: every operation but create_app
StepStored(p) ==
    \/ read_app_call(p)
    \/ update_app_call(p)
    \/ delete_app_call(p)
    \/ read_apps_call(p)
    \/ Begin(p)
    \/ CallerBegin(p)
    \/ read_app_exec(p)
    \/ read_app_views(p)
    \/ update_app_exec(p)
    \/ delete_app_exec(p)
    \/ read_apps_belong_to_workspace(p)
    \/ CallerEnd(p)
    \/ Commit(p)
    \/ Cancel(p)
    \/ Return(p)

NextStored == \E p \in Clients : StepStored(p)

SpecStored == InitStored /\ [][NextStored]_vars

\* ------------------------------------------------ two clients calling at once
\* apps 1 and 2, created at time 0
PairTable ==
    Run(Run(EmptyTable, create_app_sql(1, create_app_validate(StoredCreate).val, 0)),
        create_app_sql(2, create_app_validate(StoredCreate).val, 0))

PairIds == {UuidToString(u) : u \in Uuids}

PairQueryParams == [app_id : PairIds, read_belongings : BOOLEAN]

PairUpdateParams ==
    [app_id : PairIds, name : Opt({"b"}), workspace_id : {None}, color_style : {None},
     desc : Opt({"d"}), is_trash : Opt({TRUE})]

PairDeleteParams == [app_id : PairIds]

InitPair ==
    /\ store = PairTable
    /\ now = 0
    /\ writes = 0
    /\ pc = [p \in Procs |-> "idle"]
    /\ op = [p \in Procs |-> "none"]
    /\ params = [p \in Procs |-> NoParams]
    /\ tx = [p \in Procs |-> NoTx]
    /\ loc = [p \in Procs |-> NoLocals]
    /\ result = [p \in Procs |-> Pending]
    /\ acq = [p \in Procs |-> 0]
    /\ sent = [p \in Procs |-> 0]
    /\ lastCreate = <<>>
    /\ before = [p \in Procs |-> EmptyTable]
    /\ deleted = {}

pair_read_app_call(p) == \E prm \in PairQueryParams : Call(p, "read_app", prm)
pair_update_app_call(p) == \E prm \in PairUpdateParams : Call(p, "update_app", prm)
pair_delete_app_call(p) == \E prm \in PairDeleteParams : Call(p, "delete_app", prm)

\* each client makes one call of read_app, update_app or delete_app and keeps
\* its response
StepPair(p) ==
    \/ pair_read_app_call(p)
    \/ pair_update_app_call(p)
    \/ pair_delete_app_call(p)
    \/ Begin(p)
    \/ read_app_exec(p)
    \/ read_app_views(p)
    \/ update_app_exec(p)
    \/ delete_app_exec(p)
    \/ Commit(p)
    \/ Cancel(p)

NextPair == \E p \in Procs : StepPair(p)

SpecPair == InitPair /\ [][NextPair]_vars

\* ------------------------------------------------------------------- claims
\* the failures that come from storage, the pool or the caller, not from the
\* request
InfraKinds == {"Cancelled", "TransportFailure"} \cup StorageErrorKinds

\* the Uuid a well-formed id string names
IdOf(prm) == check_app_id(prm.app_id).val

\* C1: when a create_app succeeded and no write was committed after it, a
\* read_app of the returned id with read_belongings = false does not fail on
\* the request, and the App it returns has the name, desc and workspace_id
\* that were given to create_app, the returned id and no belongings.
C1_CreateThenRead ==
    \A p \in Procs :
        (/\ pc[p] = "done"
         /\ op[p] = "read_app"
         /\ Len(lastCreate) > 0
         /\ params[p].app_id = lastCreate[1].id
         /\ ~params[p].read_belongings)
        => /\ result[p].kind \in {"Success"} \cup InfraKinds
           /\ result[p].ok =>
                 /\ Len(result[p].val) = 1
                 /\ result[p].val[1].id = lastCreate[1].id
                 /\ result[p].val[1].name = lastCreate[1].name
                 /\ result[p].val[1].desc = lastCreate[1].desc
                 /\ result[p].val[1].workspace_id = lastCreate[1].workspace_id
                 /\ result[p].val[1].belongings = <<>>

C1_Witness ==
    \E p \in Procs :
        /\ pc[p] = "done"
        /\ op[p] = "read_app"
        /\ Len(lastCreate) > 0
        /\ params[p].app_id = lastCreate[1].id
        /\ ~params[p].read_belongings
        /\ result[p].ok
        /\ lastCreate[1].desc # lastCreate[1].name

\* C2: while a call of create_app, read_app, update_app or delete_app has not
\* returned success (it is in flight, or it failed or was cancelled at any
\* point), its transaction is not committed and the committed table is the
\* table the call started from.
C2_NoPartialWrite ==
    \A p \in Procs :
        (op[p] \in PoolOps /\ pc[p] # "idle" /\ ~result[p].ok)
        => /\ tx[p].state # "committed"
           /\ store = before[p]

C2_Witness ==
    \E p \in Procs :
        /\ pc[p] = "done"
        /\ op[p] = "update_app"
        /\ result[p].kind = "Cancelled"
        /\ sent[p] = 1
        /\ IdOf(params[p]) \in DOMAIN store
        /\ has(params[p].name)

OnlyName(prm) ==
    /\ has(prm.name)
    /\ ~has(prm.workspace_id)
    /\ ~has(prm.color_style)
    /\ ~has(prm.desc)
    /\ ~has(prm.is_trash)

NoneSupplied(prm) ==
    /\ ~has(prm.name)
    /\ ~has(prm.workspace_id)
    /\ ~has(prm.color_style)
    /\ ~has(prm.desc)
    /\ ~has(prm.is_trash)

\* C4: an update_app with a well-formed id and no optional field is never
\* rejected by the builder or on the request: it fails only when storage, the
\* pool or the caller fails it; when it succeeds the table is as it was except
\* that the row, if there is one, has the time of the update as modified_time.
C4_UpdateNothing ==
    \A p \in Procs :
        (/\ pc[p] = "done"
         /\ op[p] = "update_app"
         /\ NoneSupplied(params[p])
         /\ check_app_id(params[p].app_id).ok)
        => /\ result[p].kind \in {"Success"} \cup InfraKinds
           /\ result[p].ok =>
                 store = IF IdOf(params[p]) \in DOMAIN before[p]
                         THEN [before[p] EXCEPT ![IdOf(params[p])].modified_time =
                                                  loc[p].time]
                         ELSE before[p]

C4_Witness ==
    \E p \in Procs :
        /\ pc[p] = "done"
        /\ op[p] = "update_app"
        /\ NoneSupplied(params[p])
        /\ result[p].ok
        /\ IdOf(params[p]) \in DOMAIN before[p]
        /\ store[IdOf(params[p])].modified_time
             # before[p][IdOf(params[p])].modified_time

\* C5: a read_app of a well-formed id that has no row, because none was ever
\* created or because a delete_app removed it, never returns success: it ends
\* with NotFound unless storage, the pool or the caller failed it first.
C5_ReadMissing ==
    \A p \in Procs :
        (/\ pc[p] = "done"
         /\ op[p] = "read_app"
         /\ check_app_id(params[p].app_id).ok
         /\ IdOf(params[p]) \notin DOMAIN before[p])
        => /\ ~result[p].ok
           /\ result[p].kind \in {"NotFound"} \cup InfraKinds

C5_Witness ==
    \E p \in Procs :
        /\ pc[p] = "done"
        /\ op[p] = "read_app"
        /\ check_app_id(params[p].app_id).ok
        /\ IdOf(params[p]) \in deleted
        /\ result[p].kind = "NotFound"

\* the Apps a SELECT by workspace returns on table t, as a set
ListRows(w, t) == {ToApp(t[i]) : i \in {j \in DOMAIN t : t[j].workspace_id = w}}

\* C6: whatever create_app, update_app and delete_app calls came before, a
\* successful read_apps_belong_to_workspace(w) returns each row of the table
\* whose workspace_id is w once, as an App, and nothing else: no app of another
\* workspace, no removed app, and no row of w missing.
C6_ListExact ==
    \A p \in Procs :
        (/\ op[p] = "read_apps_belong_to_workspace"
         /\ pc[p] \in {"ret", "done"}
         /\ result[p].ok)
        => /\ {result[p].val[i] : i \in 1..Len(result[p].val)}
                = ListRows(params[p].workspace_id, store)
           /\ Len(result[p].val)
                = Cardinality({j \in DOMAIN store :
                                  store[j].workspace_id = params[p].workspace_id})

C6_Witness ==
    \E p \in Procs :
        /\ op[p] = "read_apps_belong_to_workspace"
        /\ pc[p] = "done"
        /\ result[p].ok
        /\ Len(result[p].val) = 1
        /\ Cardinality(DOMAIN store) = 2

C8_ReadInvalidId ==
    \A p \in Procs :
        (op[p] = "read_app" /\ pc[p] # "idle" /\ ~Uuid_parse_str(params[p].app_id).ok)
        => /\ pc[p] = "done"
           /\ result[p].kind = "InvalidParameter"
           /\ acq[p] = 0
           /\ tx[p].state = "none"
           /\ sent[p] = 0

C8_Witness ==
    \E p \in Procs :
        /\ op[p] = "read_app"
        /\ pc[p] = "done"
        /\ params[p].app_id = "zz"
        /\ result[p].kind = "InvalidParameter"
        /\ DOMAIN store # {}

\* the requests a validator of the operation rejects
InvalidId(prm) == ~AppId_parse(prm.app_id).ok \/ ~Uuid_parse_str(prm.app_id).ok

InvalidInput(o, prm) ==
    CASE o = "create_app" ->
           \/ ~AppName_parse(prm.name).ok
           \/ ~WorkspaceId_parse(prm.workspace_id).ok
           \/ ~UserId_parse(prm.user_id).ok
           \/ ~AppDesc_parse(prm.desc).ok
      [] o = "update_app" ->
           \/ InvalidId(prm)
           \/ has(prm.name) /\ ~AppName_parse(get(prm.name, "")).ok
           \/ has(prm.workspace_id) /\ ~WorkspaceId_parse(get(prm.workspace_id, "")).ok
           \/ has(prm.desc) /\ ~AppDesc_parse(get(prm.desc, "")).ok
      [] o \in {"read_app", "delete_app"} -> InvalidId(prm)
      [] o = "read_apps_belong_to_workspace" -> ~WorkspaceId_parse(prm.workspace_id).ok
      [] OTHER -> FALSE

\* C9 as stated: whenever a validator has rejected the input of any operation,
\* no transaction has been opened and no statement has reached storage.
C9_Original ==
    \A p \in Procs :
        result[p].kind = "InvalidParameter"
        => tx[p].state = "none" /\ acq[p] = 0 /\ sent[p] = 0

\* C9, amended: in create_app, read_app, update_app and delete_app a request a
\* validator rejects (update_app's supplied optional fields included) ends
\* with InvalidParameter before any transaction is opened and before any
\* statement is sent; read_apps_belong_to_workspace validates inside the
\* transaction its caller opened, and a rejection there acquires no
\* transaction of its own and sends no statement.
C9_ValidationFirst ==
    \A p \in Procs :
        /\ (op[p] \in PoolOps /\ pc[p] # "idle" /\ InvalidInput(op[p], params[p]))
           => /\ pc[p] = "done"
              /\ result[p].kind = "InvalidParameter"
              /\ tx[p].state = "none"
        /\ (op[p] = "read_apps_belong_to_workspace" /\ pc[p] = "ret"
              /\ InvalidInput(op[p], params[p]))
           => /\ result[p].kind = "InvalidParameter"
              /\ tx[p].state = "open"
        /\ result[p].kind = "InvalidParameter"
           => /\ InvalidInput(op[p], params[p])
              /\ acq[p] = 0
              /\ sent[p] = 0

C9_Witness ==
    \E p \in Procs :
        /\ op[p] = "update_app"
        /\ pc[p] = "done"
        /\ ~InvalidId(params[p])
        /\ IdOf(params[p]) \in DOMAIN store
        /\ params[p].name = Some("")
        /\ result[p] = invalid_params("name")
        /\ acq[p] = 0

\* C10: a call of create_app, read_app, update_app or delete_app never holds
\* more than one transaction from the pool; once it is past pool.begin() it
\* holds exactly one, open; and it answers success only with that one
\* transaction committed.
C10_OneTransactionCommitFirst ==
    \A p \in Procs :
        op[p] \in PoolOps
        => /\ acq[p] <= 1
           /\ pc[p] \in {"exec", "views", "commit"} => acq[p] = 1 /\ tx[p].state = "open"
           /\ result[p].ok => pc[p] = "done" /\ acq[p] = 1 /\ tx[p].state = "committed"

C10_Witness ==
    \E p \in Procs :
        /\ op[p] = "delete_app"
        /\ pc[p] = "done"
        /\ result[p].ok
        /\ acq[p] = 1
        /\ tx[p].state = "committed"
        /\ IdOf(params[p]) \in deleted

\* C11: read_apps_belong_to_workspace begins, commits and rolls back nothing:
\* when it returns to its caller, with a list or with an error, it has taken
\* no transaction from the pool, and the transaction the caller passed in is
\* still open and holds no write.
C11_ListLeavesTransaction ==
    \A p \in Procs :
        (op[p] = "read_apps_belong_to_workspace" /\ pc[p] = "ret")
        => /\ tx[p] = [NoTx EXCEPT !.state = "open"]
           /\ acq[p] = 0
           /\ result[p] # Pending

C11_Witness ==
    \E p \in Procs :
        /\ op[p] = "read_apps_belong_to_workspace"
        /\ pc[p] = "ret"
        /\ sent[p] = 1
        /\ ~result[p].ok
        /\ result[p].kind \in StorageErrorKinds
        /\ tx[p].state = "open"

\* C12: a successful update_app of an app that has a row leaves the row's
\* is_trash as it was when the request carries no is_trash, makes it FALSE
\* when the request carries is_trash = false and TRUE when it carries
\* is_trash = true.
C12_TrashTriState ==
    \A p \in Procs :
        (/\ op[p] = "update_app"
         /\ pc[p] = "done"
         /\ result[p].ok
         /\ IdOf(params[p]) \in DOMAIN before[p])
        => /\ IdOf(params[p]) \in DOMAIN store
           /\ store[IdOf(params[p])].is_trash =
                 IF has(params[p].is_trash) THEN params[p].is_trash[1]
                 ELSE before[p][IdOf(params[p])].is_trash

C12_Witness ==
    \E p \in Procs :
        /\ op[p] = "update_app"
        /\ pc[p] = "done"
        /\ result[p].ok
        /\ IdOf(params[p]) \in DOMAIN before[p]
        /\ before[p][IdOf(params[p])].is_trash
        /\ params[p].is_trash = Some(FALSE)
        /\ ~store[IdOf(params[p])].is_trash

\* C13: a read_app that asks for the belongings reads the views after the
\* app row, in the one transaction it acquired, while that transaction is
\* open, and its App carries the views read_views_belong_to_id returns for
\* the id, in that order; a read_app that does not ask sends the one SELECT
\* only and its App has no belongings.
C13_BelongingsInTransaction ==
    \A p \in Procs :
        /\ pc[p] = "views"
           => /\ op[p] = "read_app"
              /\ params[p].read_belongings
              /\ tx[p].state = "open"
              /\ acq[p] = 1
              /\ sent[p] = 1
        /\ (op[p] = "read_app" /\ pc[p] # "idle" /\ ~params[p].read_belongings)
           => sent[p] <= 1
        /\ (op[p] = "read_app" /\ pc[p] = "done" /\ result[p].ok)
           => /\ acq[p] = 1
              /\ sent[p] = IF params[p].read_belongings THEN 2 ELSE 1
              /\ result[p].val[1].belongings =
                    IF params[p].read_belongings
                    THEN read_views_belong_to_id(params[p].app_id)
                    ELSE <<>>

C13_Witness ==
    \E p \in Procs :
        /\ op[p] = "read_app"
        /\ pc[p] = "done"
        /\ result[p].ok
        /\ params[p].read_belongings
        /\ Len(result[p].val[1].belongings) = 2
        /\ result[p].val[1].belongings = read_views_belong_to_id(params[p].app_id)
        /\ sent[p] = 2

\* the table after the call of client p, run on its own on table t
Effect(t, p) ==
    CASE op[p] = "update_app" /\ result[p].ok ->
           Run(t, update_app_sql(update_app_validate(params[p]).val, params[p], loc[p].time))
      [] op[p] = "delete_app" /\ result[p].ok -> Run(t, delete_app_sql(IdOf(params[p])))
      [] OTHER -> t

\* the response of a successful call of client p, run on its own on table t
Alone(t, p) ==
    IF op[p] = "read_app"
    THEN Ok(<<read_app_response(t[IdOf(params[p])],
                IF params[p].read_belongings
                THEN read_views_belong_to_id(params[p].app_id) ELSE <<>>)>>)
    ELSE Ok(<<>>)

\* C14: when two clients call read_app, update_app or delete_app at once on
\* different app ids, then however their steps interleave: neither waits for
\* a row the other holds; the row of one call's id is never changed by the
\* other call; each successful response is the one the call gives when run
\* alone; a call fails only as it can fail alone; and with both calls ended
\* the table is the one the two calls leave when run one after the other.
C14_DistinctIdsIndependent ==
    \A p, q \in Procs :
        (/\ p # q
         /\ op[p] \in {"read_app", "update_app", "delete_app"}
         /\ op[q] \in {"read_app", "update_app", "delete_app"}
         /\ IdOf(params[p]) # IdOf(params[q]))
        => /\ pc[p] = "exec" => IdOf(params[p]) \notin LockedByOthers(p)
           /\ (/\ IdOf(params[q]) \in DOMAIN PairTable
               /\ ~(op[q] \in WriteOps /\ result[q].ok))
              => /\ IdOf(params[q]) \in DOMAIN store
                 /\ store[IdOf(params[q])] = PairTable[IdOf(params[q])]
           /\ result[p].ok => result[p] = Alone(PairTable, p)
           /\ (pc[p] = "done" /\ ~result[p].ok)
              => result[p].kind \in InfraKinds \cup
                    (IF op[p] = "read_app" /\ IdOf(params[p]) \notin DOMAIN PairTable
                     THEN {"NotFound"} ELSE {})
           /\ (pc[p] = "done" /\ pc[q] = "done")
              => /\ store = Effect(Effect(PairTable, p), q)
                 /\ store = Effect(Effect(PairTable, q), p)

C14_Witness ==
    \E p, q \in Procs :
        /\ op[p] = "update_app" /\ op[q] = "delete_app"
        /\ pc[p] = "done" /\ pc[q] = "done"
        /\ result[p].ok /\ result[q].ok
        /\ before[p] = PairTable /\ before[q] = PairTable
        /\ IdOf(params[p]) = 1 /\ IdOf(params[q]) = 2
        /\ params[p].name = Some("b")
        /\ DOMAIN store = {1}
        /\ store[1].name = "b"

\* C15: a transaction create_app, read_app, update_app or delete_app took
\* from the pool is open only while the call is between pool.begin() and the
\* end of its commit; once the call has ended, by a response, an error or a
\* cancellation, the transaction is committed (and the call answered success)
\* or rolled back, never open; and a call whose pool.begin() failed ends with
\* a failure, holding no transaction, having sent no statement.
C15_TransactionEnds ==
    \A p \in Procs :
        op[p] \in PoolOps
        => /\ tx[p].state = "open" => pc[p] \in {"exec", "views", "commit"}
           /\ (pc[p] = "done" /\ acq[p] = 1)
              => tx[p].state \in {"committed", "rolledback"}
           /\ tx[p].state = "committed" <=> result[p].ok
           /\ (pc[p] = "done" /\ acq[p] = 0)
              => /\ ~result[p].ok
                 /\ tx[p].state = "none"
                 /\ sent[p] = 0
           /\ (pc[p] = "done" /\ acq[p] = 0 /\ Validate(op[p], params[p]).ok)
              => result[p].kind \in {"TransportFailure", "Cancelled"}

C15_Witness ==
    \E p \in Procs :
        /\ op[p] = "create_app"
        /\ pc[p] = "done"
        /\ result[p] = Cancelled
        /\ acq[p] = 1
        /\ sent[p] = 1
        /\ tx[p].state = "rolledback"
        /\ store = before[p]

\* C16: a successful update_app with is_trash = true keeps the row and marks
\* it; a read_app of an app in the trash does not answer NotFound and, when
\* it succeeds, returns that app; a successful
\* read_apps_belong_to_workspace includes the apps of the workspace that are
\* in the trash; and no call but delete_app takes a row out of the table.
C16_SoftDeleteKeepsRow ==
    \A p \in Procs :
        /\ (/\ op[p] = "update_app" /\ pc[p] = "done" /\ result[p].ok
            /\ params[p].is_trash = Some(TRUE)
            /\ IdOf(params[p]) \in DOMAIN before[p])
           => /\ IdOf(params[p]) \in DOMAIN store
              /\ store[IdOf(params[p])].is_trash
        /\ (/\ op[p] = "read_app" /\ pc[p] = "done"
            /\ check_app_id(params[p].app_id).ok
            /\ IdOf(params[p]) \in DOMAIN before[p]
            /\ before[p][IdOf(params[p])].is_trash)
           => /\ result[p].kind \in {"Success"} \cup InfraKinds
              /\ result[p].ok
                 => [result[p].val[1] EXCEPT !.belongings = <<>>]
                       = ToApp(before[p][IdOf(params[p])])
        /\ (op[p] = "read_apps_belong_to_workspace" /\ pc[p] = "ret" /\ result[p].ok)
           => \A i \in DOMAIN store :
                 (store[i].is_trash /\ store[i].workspace_id = params[p].workspace_id)
                 => \E k \in 1..Len(result[p].val) : result[p].val[k] = ToApp(store[i])
        /\ (pc[p] # "idle" /\ op[p] # "delete_app")
           => DOMAIN before[p] \subseteq DOMAIN store

C16_Witness ==
    \E p \in Procs :
        /\ op[p] = "read_app"
        /\ pc[p] = "done"
        /\ result[p].ok
        /\ IdOf(params[p]) \in DOMAIN store
        /\ store[IdOf(params[p])].is_trash
        /\ result[p].val[1].id = params[p].app_id
        /\ lastCreate = <<>>

\* C17: an update_app or a delete_app whose request is valid and whose id
\* has no row, be it never created or already removed by a delete_app,
\* changes nothing in the table, writes nothing in its transaction, and
\* ends with success unless storage, the pool or the caller failed it:
\* never with NotFound.
C17_MissingRowSucceeds ==
    \A p \in Procs :
        (/\ op[p] \in {"update_app", "delete_app"}
         /\ pc[p] # "idle"
         /\ Validate(op[p], params[p]).ok
         /\ IdOf(params[p]) \notin DOMAIN before[p])
        => /\ store = before[p]
           /\ tx[p].puts = EmptyTable /\ tx[p].dels = {}
           /\ pc[p] = "done" => result[p].kind \in {"Success"} \cup InfraKinds

C17_Witness ==
    \E p \in Procs :
        /\ op[p] = "delete_app"
        /\ pc[p] = "done"
        /\ result[p].ok
        /\ IdOf(params[p]) \in deleted
        /\ IdOf(params[p]) \notin DOMAIN before[p]
        /\ store = before[p]

\* the optional fields a request of update_app carries
Supplied(prm) ==
    {f \in {"name", "workspace_id", "color_style", "desc", "is_trash"} :
        CASE f = "name" -> has(prm.name)
          [] f = "workspace_id" -> has(prm.workspace_id)
          [] f = "color_style" -> has(prm.color_style)
          [] f = "desc" -> has(prm.desc)
          [] f = "is_trash" -> has(prm.is_trash)}

\* the value of an optional field after two updates that do not both carry it
Merged(a, b, prior) == IF has(a) THEN a[1] ELSE IF has(b) THEN b[1] ELSE prior

\* C18: when two clients call update_app at once on the same app, their
\* requests carry no optional field in common and both calls succeed, the
\* row ends with every field either request carries set to the value that
\* request gave, every other column as it was before the two calls, and
\* modified_time the time one of the two calls read.
C18_DisjointUpdatesBothApply ==
    \A p, q \in Procs :
        (/\ p # q
         /\ op[p] = "update_app" /\ op[q] = "update_app"
         /\ pc[p] = "done" /\ pc[q] = "done"
         /\ result[p].ok /\ result[q].ok
         /\ IdOf(params[p]) = IdOf(params[q])
         /\ IdOf(params[p]) \in DOMAIN PairTable
         /\ Supplied(params[p]) \cap Supplied(params[q]) = {})
        => LET id == IdOf(params[p])
               prior == PairTable[id]
           IN  /\ id \in DOMAIN store
               /\ store[id] =
                    [prior EXCEPT
                       !.name = Merged(params[p].name, params[q].name, prior.name),
                       !.description =
                           Merged(params[p].desc, params[q].desc, prior.description),
                       !.is_trash =
                           Merged(params[p].is_trash, params[q].is_trash, prior.is_trash),
                       !.workspace_id =
                           Merged(params[p].workspace_id, params[q].workspace_id,
                                  prior.workspace_id),
                       !.color_style =
                           IF has(params[p].color_style)
                           THEN write_to_bytes(params[p].color_style[1])
                           ELSE IF has(params[q].color_style)
                           THEN write_to_bytes(params[q].color_style[1])
                           ELSE prior.color_style,
                       !.modified_time = store[id].modified_time]
               /\ store[id].modified_time \in {loc[p].time, loc[q].time}

C18_Witness ==
    \E p, q \in Procs :
        /\ op[p] = "update_app" /\ op[q] = "update_app"
        /\ pc[p] = "done" /\ pc[q] = "done"
        /\ result[p].ok /\ result[q].ok
        /\ before[p] = PairTable /\ before[q] = PairTable
        /\ IdOf(params[p]) = 1 /\ IdOf(params[q]) = 1
        /\ Supplied(params[p]) = {"name"}
        /\ Supplied(params[q]) = {"desc"}
        /\ store[1].name = "b" /\ store[1].description = "d"
        /\ store[1].name # PairTable[1].name
        /\ store[1].description # PairTable[1].description

\* C19: every row of the table has create_time <= modified_time and is
\* stored under its own id; the row a successful create_app leaves has both
\* times equal to the one time the call read; and while an update_app runs,
\* and after it, every row that was there when it started is still there
\* with the id, create_time and user_id it had.
C19_TimesAndIdentity ==
    /\ \A i \in DOMAIN store :
          /\ store[i].id = i
          /\ store[i].create_time <= store[i].modified_time
          /\ store[i].modified_time <= now
    /\ \A p \in Procs :
          /\ (op[p] = "create_app" /\ pc[p] = "done" /\ result[p].ok)
             => /\ loc[p].uuid \in DOMAIN store
                /\ store[loc[p].uuid].create_time = loc[p].time
                /\ store[loc[p].uuid].modified_time = loc[p].time
          /\ (op[p] = "update_app" /\ pc[p] # "idle")
             => \A i \in DOMAIN before[p] :
                   /\ i \in DOMAIN TxTable(p)
                   /\ TxTable(p)[i].id = before[p][i].id
                   /\ TxTable(p)[i].create_time = before[p][i].create_time
                   /\ TxTable(p)[i].user_id = before[p][i].user_id
                   /\ i \in DOMAIN store
                   /\ store[i].id = before[p][i].id
                   /\ store[i].create_time = before[p][i].create_time
                   /\ store[i].user_id = before[p][i].user_id

C19_Witness ==
    \E p \in Procs :
        /\ op[p] = "update_app"
        /\ pc[p] = "done"
        /\ result[p].ok
        /\ IdOf(params[p]) \in DOMAIN before[p]
        /\ before[p][IdOf(params[p])].create_time
              = before[p][IdOf(params[p])].modified_time
        /\ store[IdOf(params[p])].create_time < store[IdOf(params[p])].modified_time

====
